---- MODULE Spec2Model ----
(***************************************************************************)
(* Model of RunScriptWebpackPlugin (the autoRestart variant): the plugin   *)
(* that forks one child server process after every webpack build and       *)
(* restarts or signals it on later builds and on the keyboard token "rs".  *)
(*                                                                         *)
(* JavaScript's undefined / falsy values are modelled by the falsy value   *)
(* of the modelled type: "" for an absent string, 0 for an absent pid or   *)
(* an absent object reference.  The operating-system calls fork() and      *)
(* process.kill() are taken to return normally, as the repository's tests  *)
(* mock them.                                                              *)
(***************************************************************************)
EXTENDS Integers, Sequences, FiniteSets, TLC

\* ---------------------------------------------------------------- bounds
MaxEmits == 2
MaxStdin == 1
MaxSigint == 2

\* ------------------------------------------------------- value universes
NoPath == ""
NoName == ""
NoPid == 0
NoWorker == 0
NoCb == 0
Undefined == "undefined"

OutputPaths == {NoPath, "/dist"}
AssetLists == {<<"main.js">>, <<"other.js", "main.js">>}
NameOptions == {NoName, "main.js", "missing.js"}
StdinData == {<<"r", "s">>, <<" ", "r", "s", "\n">>, <<"o", "t", "h", "e", "r">>}
Whitespace == {" ", "\n", "\t", "\r"}

BoolSignal(b) == [isBool |-> TRUE, b |-> b, name |-> ""]
NamedSignal(s) == [isBool |-> FALSE, b |-> FALSE, name |-> s]
SignalOptions == {BoolSignal(FALSE), BoolSignal(TRUE), NamedSignal("SIGINT")}

\* an optional constructor option: given with value v, or left out
Given(v) == [set |-> TRUE, v |-> v]
NotGiven(v) == [set |-> FALSE, v |-> v]

\* process.execArgv and process.env of the webpack process; an environment
\* is a set of <<name, value>> pairs
ExecArgv == <<"--enable-source-maps">>
InheritedEnv == {<<"PATH", "/usr/bin">>, <<"TEST_VAR", "inherited">>}

ArgsOptions == {NotGiven(<<>>), Given(<<"--arg1">>)}
NodeArgsOptions == {NotGiven(<<>>), Given(<<"--inspect">>)}
CwdOptions == {"", "/custom/cwd"}
EnvOptions == {NotGiven({}), Given({<<"TEST_VAR", "value">>})}

\* the options argument of the constructor (autoRestart, signal and
\* keyboard stand for the value given or, when left out, their default)
UserOptionsSet ==
    [autoRestart : BOOLEAN, signal : SignalOptions, keyboard : BOOLEAN,
     restartable : BOOLEAN, name : NameOptions, args : ArgsOptions,
     nodeArgs : NodeArgsOptions, cwd : CwdOptions, env : EnvOptions]

\* this.options as the constructor builds it from its argument g
Constructor(g) ==
    [autoRestart |-> g.autoRestart, signal |-> g.signal,
     keyboard |-> g.keyboard, restartable |-> g.restartable,
     name |-> g.name,
     args |-> IF g.args.set THEN g.args.v ELSE <<>>,
     nodeArgs |-> IF g.nodeArgs.set THEN g.nodeArgs.v ELSE ExecArgv,
     cwd |-> g.cwd, env |-> g.env]

OptionsSet == {Constructor(g) : g \in UserOptionsSet}

\* constructor arguments that configure none of args, nodeArgs, cwd, env
PlainOptions ==
    {g \in UserOptionsSet :
        ~g.args.set /\ ~g.nodeArgs.set /\ g.cwd = "" /\ ~g.env.set}

\* constructor arguments with automatic and keyboard restart on and every
\* combination of args, nodeArgs, cwd, env
ForkOptions ==
    {g \in UserOptionsSet :
        /\ g.autoRestart /\ g.keyboard /\ g.restartable
        /\ g.name = "main.js" /\ g.signal = BoolSignal(FALSE)}

\* constructor arguments with keyboard restart on and no signal, and every
\* combination of autoRestart and name
StartOptions ==
    {g \in PlainOptions :
        g.keyboard /\ g.restartable /\ g.signal = BoolSignal(FALSE)}

\* mutant of the constructor's listener registration: keyboard not consulted
ListenersAtConstruction_NoKeyboardCheck(opts) ==
    IF opts.restartable THEN 1 ELSE 0

\* the 'data' listeners the constructor registers through _enableRestarting
ListenersAtConstruction(opts) ==
    IF opts.restartable /\ opts.keyboard THEN 1 ELSE 0

VARIABLES
    given,        \* the options argument the constructor was called with
    options,      \* this.options
    worker,       \* this.worker: index into children, NoWorker when undefined
    entrypoint,   \* this._entrypoint, "" when undefined
    children,     \* every ChildProcess object fork() has returned, by index
    timers,       \* the setTimeout(.., 0) callbacks not yet run, oldest first
    listeners,    \* number of 'data' listeners registered on process.stdin
    emits,        \* one record per afterEmit notification delivered so far
    stdinCount,   \* number of stdin data events delivered so far
    last,         \* the event handled by the last step and the state it saw
    step,         \* the effects of the last step, in program order
    signaled      \* history: the children process.kill has been called on

\* the variant with the cleanup option (src/src/index.ts)
VARIABLES
    cleanupOption,  \* this.options.cleanup
    applied,        \* apply(compiler) has been called
    cleanupWorker,  \* this.worker, named by its pid; NoWorker when undefined
    procs,          \* for every pid whether a process with that pid exists
    intervals,      \* one record per setInterval made by _cleanup
    sigints,        \* number of SIGINT signals delivered so far
    exited,         \* the webpack process has terminated
    cleanupLast,    \* the event handled by the last step and the state it saw
    cleanupStep     \* the effects of the last step, in program order

\* the state of the plugin and of its environment
pluginVars == <<given, options, worker, entrypoint, children, timers,
                listeners, emits, stdinCount, last, step>>

cleanupVars == <<cleanupOption, applied, cleanupWorker, procs, intervals,
                 sigints, exited, cleanupLast, cleanupStep>>

vars == <<pluginVars, signaled, cleanupVars>>

\* ------------------------------------------------------------- effects
\* What a handler does, in program order.  Every handler below is an
\* operator that yields its list of effects; the actions apply the list.
Eff(op, n, s) == [op |-> op, n |-> n, s |-> s]
EffLog(msg) == Eff("log", 0, msg)
EffError(msg) == Eff("error", 0, msg)
EffKill(pid, sig) == Eff("kill", pid, sig)
EffSetEntry(path) == Eff("setEntrypoint", 0, path)
EffFork(child, path) == Eff("fork", child, path)
EffTimer(cb) == Eff("setTimeout", cb, "")
EffSetWorker(child) == Eff("setWorker", child, "")
EffCb(n) == Eff("cb", n, "")
EffThrow(msg) == Eff("throw", 0, msg)

OutputPathError == "output.path should be defined in webpack config!"
EntrypointError == "run-script-webpack-plugin requires an entrypoint."
RestartNotice == "Restarting app..."
EntryNotFound == "Entry not found"
MoreThanOneEntry == "More than one entry built"

Ops(s, op) == {i \in 1..Len(s) : s[i].op = op}
Count(s, op) == Cardinality(Ops(s, op))
Has(s, op) == Ops(s, op) # {}
First(s, op) == s[CHOOSE i \in Ops(s, op) : \A j \in Ops(s, op) : i <= j]
CbCount(s, n) == Cardinality({i \in Ops(s, "cb") : s[i].n = n})

\* statement sequencing: an exception thrown by a skips b
Then(a, b) == IF Has(a, "throw") THEN a ELSE a \o b

\* ----------------------------------------------------------- pure code
\* mutants of getSignal: `false` mapped to a signal name; `true` passed on
\* as if it were no signal
getSignal_FalseNamed(signal) ==
    IF signal.isBool THEN "SIGUSR2" ELSE signal.name

getSignal_TrueDropped(signal) ==
    IF signal.isBool THEN Undefined ELSE signal.name

getSignal(signal) ==
    IF signal.isBool /\ ~signal.b THEN Undefined
    ELSE IF signal.isBool /\ signal.b THEN "SIGUSR2"
    ELSE signal.name

RECURSIVE trimStart(_)
trimStart(d) ==
    IF d # <<>> /\ Head(d) \in Whitespace THEN trimStart(Tail(d)) ELSE d

RECURSIVE trimEnd(_)
trimEnd(d) ==
    IF d # <<>> /\ d[Len(d)] \in Whitespace
    THEN trimEnd(SubSeq(d, 1, Len(d) - 1)) ELSE d

\* mutant of trim: trailing whitespace is kept
trim_StartOnly(d) == trimStart(d)

trim(d) == trimEnd(trimStart(d))

InList(x, list) == \E i \in 1..Len(list) : list[i] = x

EntryPath(path, name) == path \o "/" \o name

\* ------------------------------------------------------------ handlers
WorkerPid == IF worker = NoWorker THEN NoPid ELSE children[worker].pid

\* `this.worker && this.worker.connected && this.worker?.pid`
Running ==
    /\ worker # NoWorker
    /\ children[worker].connected
    /\ WorkerPid # NoPid

NextChild == Len(children) + 1

\* mutants of _stopServer: kill only with a signal name (as afterEmit did
\* before autoRestart existed); kill whenever a worker is tracked (as the
\* keyboard handler did then)
StopEffects_OnlyNamed ==
    IF WorkerPid # NoPid /\ getSignal(options.signal) # Undefined
    THEN <<EffKill(WorkerPid, getSignal(options.signal))>>
    ELSE <<>>

StopEffects_NoPidCheck ==
    IF worker # NoWorker
    THEN <<EffKill(WorkerPid, getSignal(options.signal))>>
    ELSE <<>>

\* mutant of _stopServer: the handle is dropped once it has been signaled
StopEffects_ClearsWorker ==
    IF WorkerPid # NoPid
    THEN <<EffKill(WorkerPid, getSignal(options.signal)),
           EffSetWorker(NoWorker)>>
    ELSE <<>>

\* _stopServer()
StopEffects ==
    IF WorkerPid # NoPid
    THEN <<EffKill(WorkerPid, getSignal(options.signal))>>
    ELSE <<>>

\* mutant of _startServer: the child is recorded as soon as it is forked
StartEffects_ImmediateWorker(cb) ==
    IF entrypoint = ""
    THEN <<EffThrow(EntrypointError)>>
    ELSE <<EffFork(NextChild, entrypoint), EffSetWorker(NextChild),
           EffTimer(cb)>>

\* mutant of _startServer: no entrypoint check
StartEffects_NoEntryCheck(cb) ==
    <<EffFork(NextChild, entrypoint), EffTimer(cb)>>

\* _startServer(cb)
StartEffects(cb) ==
    IF entrypoint = ""
    THEN <<EffThrow(EntrypointError)>>
    ELSE <<EffFork(NextChild, entrypoint), EffTimer(cb)>>

\* mutant of _restartServer: the old process is stopped, none is started
RestartEffects_NoStart ==
    Then(<<EffLog(RestartNotice)>>, StopEffects)

\* mutant of _restartServer: the replacement is started before the old
\* process is stopped
RestartEffects_StartFirst ==
    Then(<<EffLog(RestartNotice)>>, Then(StartEffects(NoCb), StopEffects))

\* _restartServer()
RestartEffects ==
    Then(<<EffLog(RestartNotice)>>, Then(StopEffects, StartEffects(NoCb)))

\* mutant of the name choice: a configured name that was not built falls
\* back to the first asset
ResolveName_FallbackFirst(assets) ==
    IF options.name # NoName /\ InList(options.name, assets)
    THEN options.name
    ELSE IF assets = <<>> THEN Undefined ELSE assets[1]

\* mutant of the logging: the multi-entry notice also for a single asset
ResolveLogs_NoticeForOne(assets) ==
    IF options.name # NoName
    THEN IF InList(options.name, assets) THEN <<>>
         ELSE <<EffError(EntryNotFound)>>
    ELSE IF Len(assets) > 0 THEN <<EffLog(MoreThanOneEntry)>>
         ELSE <<>>

\* startServer: the name chosen and the lines logged while choosing it
ResolveName(assets) ==
    IF options.name # NoName THEN options.name
    ELSE IF assets = <<>> THEN Undefined ELSE assets[1]

ResolveLogs(assets) ==
    IF options.name # NoName
    THEN IF InList(options.name, assets) THEN <<>>
         ELSE <<EffError(EntryNotFound)>>
    ELSE IF Len(assets) > 1 THEN <<EffLog(MoreThanOneEntry)>>
         ELSE <<>>

\* mutant of startServer: the entrypoint is stored before output.path is
\* checked
FreshStartEffects_StoreThenCheck(n, path, assets) ==
    Then(ResolveLogs(assets),
         LET entry == EntryPath(path, ResolveName(assets))
         IN  Then(<<EffSetEntry(entry)>>,
                  IF path = NoPath
                  THEN <<EffThrow(OutputPathError)>>
                  ELSE <<EffFork(NextChild, entry), EffTimer(n)>>))

\* mutants of startServer: cb called as soon as fork() returns; output.path
\* not checked
FreshStartEffects_EagerCb(n, path, assets) ==
    Then(ResolveLogs(assets),
         IF path = NoPath
         THEN <<EffThrow(OutputPathError)>>
         ELSE LET entry == EntryPath(path, ResolveName(assets))
              IN  <<EffSetEntry(entry), EffFork(NextChild, entry),
                    EffTimer(NoCb), EffCb(n)>>)

FreshStartEffects_NoPathCheck(n, path, assets) ==
    Then(ResolveLogs(assets),
         LET entry == EntryPath(path, ResolveName(assets))
         IN  <<EffSetEntry(entry), EffFork(NextChild, entry), EffTimer(n)>>)

\* startServer(compilation, cb); _startServer reads the entrypoint just set
FreshStartEffects(n, path, assets) ==
    Then(ResolveLogs(assets),
         IF path = NoPath
         THEN <<EffThrow(OutputPathError)>>
         ELSE LET entry == EntryPath(path, ResolveName(assets))
              IN  <<EffSetEntry(entry), EffFork(NextChild, entry), EffTimer(n)>>)

\* mutant of afterEmit: with autoRestart off a stale handle is left alone
AfterEmitEffects_NoStartWhenOff(n, path, assets) ==
    IF Running
    THEN IF options.autoRestart
         THEN Then(RestartEffects, <<EffCb(n)>>)
         ELSE Then(StopEffects, <<EffCb(n)>>)
    ELSE IF options.autoRestart \/ worker = NoWorker
         THEN FreshStartEffects(n, path, assets)
         ELSE <<EffCb(n)>>

\* mutant of afterEmit: an automatic restart resolves the entry path anew
AfterEmitEffects_ResolveOnRestart(n, path, assets) ==
    IF Running
    THEN IF options.autoRestart
         THEN Then(<<EffLog(RestartNotice)>>,
                   Then(StopEffects,
                        Then(FreshStartEffects(NoCb, path, assets),
                             <<EffCb(n)>>)))
         ELSE Then(StopEffects, <<EffCb(n)>>)
    ELSE FreshStartEffects(n, path, assets)

\* mutant of afterEmit: on a restart cb is handed to _startServer
AfterEmitEffects_DeferredCb(n, path, assets) ==
    IF Running
    THEN IF options.autoRestart
         THEN Then(<<EffLog(RestartNotice)>>,
                   Then(StopEffects, StartEffects(n)))
         ELSE Then(StopEffects, <<EffCb(n)>>)
    ELSE FreshStartEffects(n, path, assets)

\* mutant of afterEmit: autoRestart is not consulted
AfterEmitEffects_AlwaysRestart(n, path, assets) ==
    IF Running
    THEN Then(RestartEffects, <<EffCb(n)>>)
    ELSE FreshStartEffects(n, path, assets)

\* afterEmit(compilation, cb): cb is the callback of notification n
AfterEmitEffects(n, path, assets) ==
    IF Running
    THEN IF options.autoRestart
         THEN Then(RestartEffects, <<EffCb(n)>>)
         ELSE Then(StopEffects, <<EffCb(n)>>)
    ELSE FreshStartEffects(n, path, assets)

\* mutant of the stdin listener: any input restarts
StdinEffects_AnyData(data) == RestartEffects

\* the stdin 'data' listener
StdinEffects(data) ==
    IF trim(data) = <<"r", "s">> THEN RestartEffects ELSE <<>>

\* mutant of the setTimeout callback: cb is not called
AckEffects_NoCb(t) == <<EffSetWorker(t.child)>>

\* the setTimeout callback: this.worker = child; cb?.()
AckEffects(t) ==
    <<EffSetWorker(t.child)>> \o (IF t.cb # NoCb THEN <<EffCb(t.cb)>> ELSE <<>>)

\* ------------------------------------------------- applying the effects
\* mutant of the fork call: env merged over the inherited environment
ForkCall_MergedEnv ==
    [args |-> options.args, execArgv |-> options.nodeArgs,
     stdio |-> "inherit", cwd |-> options.cwd,
     env |-> IF options.env.set
             THEN Given(options.env.v \cup
                        {p \in InheritedEnv :
                            \A q \in options.env.v : q[1] # p[1]})
             ELSE options.env]

\* mutant of the fork call: the script arguments are left out
ForkCall_NoArgs ==
    [args |-> <<>>, execArgv |-> options.nodeArgs,
     stdio |-> "inherit", cwd |-> options.cwd, env |-> options.env]

\* the arguments and options _startServer passes to fork() after the path
ForkCall ==
    [args |-> options.args, execArgv |-> options.nodeArgs,
     stdio |-> "inherit", cwd |-> options.cwd, env |-> options.env]

\* the object fork() returns; `by` and `n` name the event that forked it
\* and `call` what fork() was called with
NewChild(pid, by, n) ==
    [pid |-> pid, connected |-> TRUE, by |-> by, n |-> n, call |-> ForkCall]

ChildrenAfter(effs, pid, by, n) ==
    IF Has(effs, "fork")
    THEN Append(children, NewChild(pid, by, n))
    ELSE children

\* mutant of the timer queue: the newest callback runs first
TimersAfter_NewestFirst(effs) ==
    IF Has(effs, "setTimeout")
    THEN <<[child |-> NextChild, cb |-> First(effs, "setTimeout").n]>>
            \o timers
    ELSE timers

\* setTimeout(.., 0): callbacks with the same delay run in the order they
\* were scheduled
TimersAfter(effs) ==
    IF Has(effs, "setTimeout")
    THEN Append(timers, [child |-> NextChild, cb |-> First(effs, "setTimeout").n])
    ELSE timers

WorkerAfter(effs) ==
    IF Has(effs, "setWorker") THEN First(effs, "setWorker").n ELSE worker

EntrypointAfter(effs) ==
    IF Has(effs, "setEntrypoint") THEN First(effs, "setEntrypoint").s
    ELSE entrypoint

EmitsAfter(effs) ==
    [k \in 1..Len(emits) |->
        [emits[k] EXCEPT !.cbs = @ + CbCount(effs, k)]]

Event(kind, n, path, assets, data) ==
    [kind |-> kind, n |-> n, path |-> path, assets |-> assets, data |-> data,
     running |-> Running, workerPid |-> WorkerPid,
     hadEntry |-> entrypoint # ""]

\* ---------------------------------------------------------------- Init
InitWith(g) ==
    /\ given = g
    /\ options = Constructor(g)
    /\ worker = NoWorker
    /\ entrypoint = ""
    /\ children = <<>>
    /\ timers = <<>>
    /\ listeners = ListenersAtConstruction(options)
    /\ emits = <<>>
    /\ stdinCount = 0
    /\ last = [kind |-> "init", n |-> 0, path |-> NoPath, assets |-> <<>>,
               data |-> <<>>, running |-> FALSE, workerPid |-> NoPid,
               hadEntry |-> FALSE]
    /\ step = <<>>
    /\ signaled = {}

\* the cleanup variant's state while the autoRestart variant is modelled
CleanupIdle ==
    /\ cleanupOption = FALSE
    /\ applied = FALSE
    /\ cleanupWorker = NoWorker
    /\ procs = [p \in {} |-> "none"]
    /\ intervals = <<>>
    /\ sigints = 0
    /\ exited = FALSE
    /\ cleanupLast = [kind |-> "init"]
    /\ cleanupStep = <<>>

Init == CleanupIdle /\ \E g \in PlainOptions : InitWith(g)

ForkInit == CleanupIdle /\ \E g \in ForkOptions : InitWith(g)

\* --------------------------------------------------------------- actions
PidChoices == {NoPid, 100 + NextChild}

\* webpack delivers an afterEmit notification with
\* compiler.options.output.path = path, Object.keys(compilation.assets) =
\* assets; a fork() made while handling it yields a child with pid `pid`
AfterEmit(path, assets, pid) ==
    /\ Len(emits) < MaxEmits
    /\ LET n == Len(emits) + 1
           effs == AfterEmitEffects(n, path, assets)
       IN
       /\ step' = effs
       /\ last' = Event("emit", n, path, assets, <<>>)
       /\ worker' = WorkerAfter(effs)
       /\ entrypoint' = EntrypointAfter(effs)
       /\ children' = ChildrenAfter(effs, pid, "emit", n)
       /\ timers' = TimersAfter(effs)
       /\ emits' = Append(emits, [raised |-> Has(effs, "throw"),
                                  cbs |-> CbCount(effs, n)])
    /\ UNCHANGED <<given, options, listeners, stdinCount>>

\* mutant of the deferred step: it rewrites the signal option
Ack_RewritesSignal ==
    /\ timers # <<>>
    /\ LET effs == AckEffects(Head(timers)) IN
       /\ step' = effs
       /\ last' = Event("ack", Head(timers).cb, NoPath, <<>>, <<>>)
       /\ worker' = WorkerAfter(effs)
       /\ emits' = EmitsAfter(effs)
    /\ timers' = Tail(timers)
    /\ options' = [options EXCEPT !.signal = BoolSignal(TRUE)]
    /\ UNCHANGED <<given, entrypoint, children, listeners, stdinCount>>

\* the event loop runs the oldest pending setTimeout(.., 0) callback
Ack ==
    /\ timers # <<>>
    /\ LET effs == AckEffects(Head(timers)) IN
       /\ step' = effs
       /\ last' = Event("ack", Head(timers).cb, NoPath, <<>>, <<>>)
       /\ worker' = WorkerAfter(effs)
       /\ emits' = EmitsAfter(effs)
    /\ timers' = Tail(timers)
    /\ UNCHANGED <<given, options, entrypoint, children, listeners,
                   stdinCount>>

\* process.stdin emits 'data' to the registered listener (the stream only
\* flows, and 'data' is only emitted, once a listener has been registered)
Stdin(data, pid) ==
    /\ listeners > 0
    /\ stdinCount < MaxStdin
    /\ stdinCount' = stdinCount + 1
    /\ LET effs == StdinEffects(data) IN
       /\ step' = effs
       /\ last' = Event("stdin", stdinCount + 1, NoPath, <<>>, data)
       /\ worker' = WorkerAfter(effs)
       /\ children' = ChildrenAfter(effs, pid, "stdin", stdinCount + 1)
       /\ timers' = TimersAfter(effs)
    /\ UNCHANGED <<given, options, entrypoint, listeners, emits>>

\* the child this.worker refers to exits: its IPC channel closes and
\* worker.connected turns false (the flag is only ever read through
\* this.worker, so an exit of any other child is not observable)
ChildExit(c) ==
    /\ c = worker
    /\ children[c].connected
    /\ children' = [children EXCEPT ![c].connected = FALSE]
    /\ last' = Event("exit", c, NoPath, <<>>, <<>>)
    /\ step' = <<>>
    /\ UNCHANGED <<given, options, worker, entrypoint, timers, listeners,
                   emits, stdinCount>>

\* a step of the plugin or of its environment
PluginNext ==
    \/ \E path \in OutputPaths, assets \in AssetLists, pid \in PidChoices :
          AfterEmit(path, assets, pid)
    \/ Ack
    \/ \E data \in StdinData, pid \in PidChoices : Stdin(data, pid)
    \/ \E c \in 1..Len(children) : ChildExit(c)

Next == PluginNext /\ UNCHANGED <<signaled, cleanupVars>>

Spec == Init /\ [][Next]_vars

\* process.kill is only ever called with this.worker.pid: a step with a
\* kill has signaled the child this.worker referred to
SignaledAfter(effs) ==
    IF Has(effs, "kill") THEN signaled \cup {worker} ELSE signaled

\* the same steps with the history of signaled children recorded
SignalNext ==
    /\ PluginNext
    /\ signaled' = SignaledAfter(step')
    /\ UNCHANGED cleanupVars

SignalSpec == Init /\ [][SignalNext]_vars

\* the event loop runs every setTimeout callback
FairSpec == Spec /\ WF_vars(Ack /\ UNCHANGED <<signaled, cleanupVars>>)

\* the program constructed with keyboard restart on, every deferred step
\* eventually run
StartInit == CleanupIdle /\ \E g \in StartOptions : InitWith(g)

FairStartSpec ==
    StartInit /\ [][Next]_vars /\ WF_vars(Ack /\ UNCHANGED <<signaled, cleanupVars>>)

\* the same program constructed with args, nodeArgs, cwd and env options
ForkSpec == ForkInit /\ [][Next]_vars

\* ------------------------------------- the variant with the cleanup option
\* src/src/index.ts: apply() registers _cleanup for 'exit' and 'SIGINT'
\* when options.cleanup is set.  Modelled here: the constructor's cleanup
\* option, apply, the assignment of this.worker by the setTimeout callback,
\* _cleanup, its setInterval callback, _processExists, and process.exit.
\* process.kill raises when no process has the pid, which is what
\* _processExists relies on.
CleanupPids == {201, 202}
maxRetry == 5

KillingNotice == "Killing worker with process id"
FailedNotice == "Failed to kill"
NoSuchProcess == "ESRCH"

EffInterval == Eff("setInterval", 0, "")
EffProbe(pid) == Eff("probe", pid, "0")
EffDeleteWorker == Eff("deleteWorker", 0, "")
EffRetry == Eff("retry++", 0, "")
EffExit == Eff("exit", 0, "")

\* process.kill(pid, 0) does not raise
_processExists(pid) == procs[pid] = "exists"

\* _cleanup() with this.worker = w, up to the setInterval call
_cleanupEffects(w) ==
    IF w = NoWorker THEN <<>>
    ELSE Then(<<EffLog(KillingNotice), EffKill(w, Undefined)>>
                 \o (IF _processExists(w) THEN <<>>
                     ELSE <<EffThrow(NoSuchProcess)>>),
              <<EffInterval>>)

\* the process terminates: the 'exit' listeners run, here _cleanup when
\* apply registered it, and nothing runs after them
ExitEffects(w) ==
    <<EffExit>> \o (IF applied /\ cleanupOption THEN _cleanupEffects(w) ELSE <<>>)

\* an exception nobody catches terminates the process
Uncaught(effs, w) ==
    IF Has(effs, "throw") THEN effs \o ExitEffects(w) ELSE effs

\* the setInterval callback of _cleanup, its counter being retry
PollEffects(retry, w) ==
    IF w = NoWorker THEN <<>>
    ELSE IF retry > maxRetry
         THEN <<EffLog(FailedNotice)>> \o ExitEffects(w)
         ELSE IF ~_processExists(w)
              THEN <<EffProbe(w), EffDeleteWorker>> \o ExitEffects(NoWorker)
              ELSE <<EffProbe(w), EffRetry>>

CleanupEvent(kind, i) ==
    [kind |-> kind, i |-> i, worker |-> cleanupWorker,
     existed |-> IF cleanupWorker = NoWorker THEN FALSE
                 ELSE _processExists(cleanupWorker),
     retry |-> IF i \in 1..Len(intervals) THEN intervals[i].retry ELSE 0]

\* the state after a handler whose effects are effs
CleanupApply(effs) ==
    /\ cleanupStep' = effs
    /\ exited' = Has(effs, "exit")
    /\ cleanupWorker' =
          IF Has(effs, "deleteWorker") THEN NoWorker ELSE cleanupWorker

CleanupInit ==
    /\ InitWith([autoRestart |-> TRUE, signal |-> BoolSignal(FALSE),
                 keyboard |-> FALSE, restartable |-> FALSE, name |-> NoName,
                 args |-> NotGiven(<<>>), nodeArgs |-> NotGiven(<<>>),
                 cwd |-> "", env |-> NotGiven({})])
    /\ cleanupOption \in BOOLEAN
    /\ applied = FALSE
    /\ cleanupWorker = NoWorker
    /\ procs = [p \in CleanupPids |-> "none"]
    /\ intervals = <<>>
    /\ sigints = 0
    /\ exited = FALSE
    /\ cleanupLast = [kind |-> "init", i |-> 0, worker |-> NoWorker,
                      existed |-> FALSE, retry |-> 0]
    /\ cleanupStep = <<>>

\* apply(compiler)
Apply ==
    /\ ~applied /\ ~exited
    /\ applied' = TRUE
    /\ cleanupLast' = CleanupEvent("apply", 0)
    /\ cleanupStep' = <<>>
    /\ UNCHANGED <<cleanupOption, cleanupWorker, procs, intervals, sigints,
                   exited>>

\* the setTimeout callback of a fork assigns the child to this.worker
WorkerRecorded(pid) ==
    /\ applied /\ ~exited
    /\ procs[pid] = "none"
    /\ procs' = [procs EXCEPT ![pid] = "exists"]
    /\ cleanupWorker' = pid
    /\ cleanupLast' = CleanupEvent("recorded", 0)
    /\ cleanupStep' = <<>>
    /\ UNCHANGED <<cleanupOption, applied, intervals, sigints, exited>>

\* a child process ends, of its own accord or because it was signaled
ProcessGone(pid) ==
    /\ procs[pid] = "exists"
    /\ procs' = [procs EXCEPT ![pid] = "gone"]
    /\ cleanupLast' = CleanupEvent("gone", 0)
    /\ cleanupStep' = <<>>
    /\ UNCHANGED <<cleanupOption, applied, cleanupWorker, intervals, sigints,
                   exited>>

\* SIGINT is delivered: the listener apply registered runs _cleanup; with
\* no listener the signal terminates the process
Sigint ==
    /\ ~exited /\ sigints < MaxSigint
    /\ sigints' = sigints + 1
    /\ cleanupLast' = CleanupEvent("sigint", 0)
    /\ LET effs == IF applied /\ cleanupOption
                   THEN Uncaught(_cleanupEffects(cleanupWorker), cleanupWorker)
                   ELSE <<EffExit>>
       IN  /\ CleanupApply(effs)
           /\ intervals' =
                 IF Has(effs, "setInterval") /\ ~Has(effs, "exit")
                 THEN Append(intervals, [retry |-> 0, polls |-> 0])
                 ELSE intervals
    /\ UNCHANGED <<cleanupOption, applied, procs>>

\* the process ends for another reason: the 'exit' listeners run
HostExit ==
    /\ ~exited
    /\ cleanupLast' = CleanupEvent("exit", 0)
    /\ CleanupApply(ExitEffects(cleanupWorker))
    /\ UNCHANGED <<cleanupOption, applied, procs, intervals, sigints>>

\* a tick of the i-th interval
Poll(i) ==
    /\ ~exited
    /\ cleanupLast' = CleanupEvent("poll", i)
    /\ LET effs == PollEffects(intervals[i].retry, cleanupWorker) IN
       /\ CleanupApply(effs)
       /\ intervals' =
             [intervals EXCEPT
                 ![i].polls = @ + 1,
                 ![i].retry = IF Has(effs, "retry++") THEN @ + 1 ELSE @]
    /\ UNCHANGED <<cleanupOption, applied, procs, sigints>>

CleanupNext ==
    /\ \/ Apply
       \/ \E pid \in CleanupPids : WorkerRecorded(pid)
       \/ \E pid \in CleanupPids : ProcessGone(pid)
       \/ Sigint
       \/ HostExit
       \/ \E i \in 1..Len(intervals) : Poll(i)
    /\ UNCHANGED <<pluginVars, signaled>>

CleanupSpec == CleanupInit /\ [][CleanupNext]_vars

TypeOK ==
    /\ given \in UserOptionsSet
    /\ options \in OptionsSet
    /\ worker \in 0..Len(children)
    /\ Len(emits) <= MaxEmits
    /\ stdinCount <= MaxStdin
    /\ Len(timers) <= Len(children)
    /\ signaled \subseteq 1..Len(children)

\* ---------------------------------------------------------------- claims
Raised == Has(step, "throw")
EmitStep == last.kind = "emit"
StdinStep == last.kind = "stdin"
AckStep == last.kind = "ack"
\* the step ran _restartServer
RestartStep == Has(step, "log") /\ First(step, "log").s = RestartNotice
KillsIn(effs) == {effs[i] : i \in Ops(effs, "kill")}
Before(effs, a, b) ==
    \A i \in Ops(effs, a), j \in Ops(effs, b) : i < j
SignalIsFalse == options.signal.isBool /\ ~options.signal.b
SignalIsTrue == options.signal.isBool /\ options.signal.b
ForksBy(kind) == {c \in 1..Len(children) : children[c].by = kind}
NotRaised == {n \in 1..Len(emits) : ~emits[n].raised}

\* C1: every afterEmit notification that does not raise has its completion
\* callback invoked exactly once: never twice, and eventually once (the
\* pending setTimeout callbacks always run), in every controller state and
\* for both values of autoRestart.
C1_CallbackExactlyOnce ==
    /\ [](\A n \in 1..Len(emits) : emits[n].cbs <= 1)
    /\ []<>(\A n \in NotRaised : emits[n].cbs = 1)

\* a notification handled while Running and one handled with no process
\* have both been called back, the latter by the deferred step
C1_Witness ==
    /\ AckStep /\ last.n # NoCb /\ CbCount(step, last.n) = 1
    /\ Len(emits) >= 2
    /\ \A k \in 1..Len(emits) : emits[k].cbs = 1

\* C2: with autoRestart true, every afterEmit handled with a defined
\* output.path forks exactly once and does not raise, whether or not the
\* previous fork has been acknowledged; so the forks made by afterEmit are
\* as many as the notifications handled without raising.
C2_SpawnPerEmit ==
    options.autoRestart =>
        /\ (EmitStep /\ last.path # NoPath =>
                Count(step, "fork") = 1 /\ ~Raised)
        /\ Cardinality(ForksBy("emit")) = Cardinality(NotRaised)

\* a second notification forks while the first fork is still unacknowledged
C2_Witness ==
    /\ options.autoRestart /\ EmitStep /\ last.n >= 2
    /\ Len(timers) >= 2 /\ Cardinality(ForksBy("emit")) >= 2
    /\ NotRaised = 1..Len(emits)

\* C3: with autoRestart false, an afterEmit handled while Running (worker
\* recorded, connected, pid known) forks nothing, makes at most one
\* process.kill call and calls cb exactly once (in the handler, with no
\* deferred call left pending); an afterEmit forks only when not Running.
C3_NoRestartWhenDisabled ==
    (~options.autoRestart /\ EmitStep) =>
        /\ last.running =>
              /\ ~Has(step, "fork")
              /\ Count(step, "kill") <= 1
              /\ CbCount(step, last.n) = 1
              /\ emits[last.n].cbs = 1
              /\ \A i \in 1..Len(timers) : timers[i].cb # last.n
        /\ Has(step, "fork") => ~last.running

C3_Witness ==
    /\ ~options.autoRestart /\ EmitStep /\ last.running
    /\ Count(step, "kill") = 1 /\ emits[last.n].cbs = 1

\* C4: with autoRestart false and signal left at its default (false), an
\* afterEmit that arrives while the started process (pid known, connected)
\* runs makes no process.kill call, forks nothing and calls cb.
C4_NoKillWhenAutoRestartOff ==
    (~options.autoRestart /\ SignalIsFalse /\ EmitStep /\ last.running) =>
        /\ ~Has(step, "kill")
        /\ ~Has(step, "fork")
        /\ CbCount(step, last.n) = 1

C6_DefaultRestartKillsThenForks ==
    (SignalIsFalse /\ options.autoRestart /\ EmitStep /\ last.running) =>
        /\ KillsIn(step) = {EffKill(last.workerPid, Undefined)}
        /\ Count(step, "kill") = 1
        /\ Count(step, "fork") = 1
        /\ Before(step, "kill", "fork")
        /\ Len(children) = First(step, "fork").n

C6_Witness ==
    /\ SignalIsFalse /\ options.autoRestart /\ EmitStep /\ last.running
    /\ Has(step, "kill") /\ Len(children) >= 2

\* C7: the signal passed to process.kill is always the three-way mapping of
\* the configured value: 'SIGUSR2' for true, the configured name unchanged
\* for a name (undefined for false); and every restart of a worker with a
\* known pid makes exactly that call on that pid.
C7_Expected ==
    IF SignalIsTrue THEN "SIGUSR2"
    ELSE IF SignalIsFalse THEN Undefined
    ELSE options.signal.name

C7_SignalMapping ==
    /\ \A k \in KillsIn(step) : k.s = C7_Expected
    /\ (RestartStep /\ last.workerPid # NoPid) =>
          /\ KillsIn(step) = {EffKill(last.workerPid, C7_Expected)}
          /\ Count(step, "kill") = 1

C7_Witness ==
    /\ SignalIsTrue /\ RestartStep /\ EmitStep
    /\ KillsIn(step) = {EffKill(last.workerPid, "SIGUSR2")}

\* C8: a restart attempted (by afterEmit with a defined output.path, or by
\* "rs") after a fork was made, while the tracked handle has no pid (fork
\* not yet acknowledged, or the child has none), makes no process.kill
\* call, raises nothing, and forks the new process.
C8_NoPidNoSignal ==
    (/\ last.hadEntry /\ last.workerPid = NoPid
     /\ \/ EmitStep /\ last.path # NoPath
        \/ StdinStep /\ trim(last.data) = <<"r", "s">>) =>
        /\ ~Has(step, "kill")
        /\ ~Raised
        /\ Count(step, "fork") = 1
        /\ Len(timers) >= 1 /\ timers[Len(timers)].child = Len(children)

\* "rs" arrives while the recorded worker has no pid
C8_Witness ==
    /\ StdinStep /\ RestartStep /\ last.hadEntry
    /\ worker # NoWorker /\ children[worker].pid = NoPid
    /\ Has(step, "fork") /\ ~Has(step, "kill")

\* C9 as stated: whenever afterEmit is invoked with an undefined
\* output.path, in any controller state, it raises the output.path error
\* and the callback of that notification is not invoked.
C9_UndefinedPathAlwaysRaises ==
    (EmitStep /\ last.path = NoPath) =>
        /\ Has(step, "throw")
        /\ First(step, "throw").s = OutputPathError
        /\ emits[last.n].cbs = 0

\* C9 as amended: afterEmit invoked with an undefined output.path while
\* not Running (no worker, or one that is disconnected or has no pid)
\* raises the output.path error, forks nothing, and the callback of a
\* notification that raised is never invoked.
C9_UndefinedPathRaisesOnFreshStart ==
    /\ (EmitStep /\ last.path = NoPath /\ ~last.running) =>
          /\ Has(step, "throw")
          /\ First(step, "throw").s = OutputPathError
          /\ ~Has(step, "fork") /\ ~Has(step, "cb")
    /\ \A n \in 1..Len(emits) : emits[n].raised =>
          /\ emits[n].cbs = 0
          /\ \A i \in 1..Len(timers) : timers[i].cb # n

\* a notification with no output.path raises after an earlier start
C9_Witness ==
    /\ EmitStep /\ last.path = NoPath /\ ~last.running /\ last.hadEntry
    /\ Raised /\ emits[last.n].raised /\ emits[last.n].cbs = 0

\* C10: an afterEmit handled while not Running never calls cb in the
\* handler; the callback of such a notification is called only by the
\* deferred setTimeout step, after the fork, and after that step has
\* recorded the forked child as this.worker.
C10_CallbackAfterAck ==
    /\ (EmitStep /\ ~last.running) =>
          /\ ~Has(step, "cb")
          /\ emits[last.n].cbs = 0
    /\ (AckStep /\ Has(step, "cb")) =>
          /\ Before(step, "setWorker", "cb")
          /\ Count(step, "setWorker") = 1
          /\ worker = First(step, "setWorker").n
          /\ worker \in 1..Len(children)
          /\ children[worker].by = "emit"
          /\ children[worker].n = First(step, "cb").n
    /\ Has(step, "cb") => AckStep \/ (EmitStep /\ last.running)

C10_Witness ==
    /\ AckStep /\ CbCount(step, last.n) = 1
    /\ worker # NoWorker /\ children[worker].n = last.n
    /\ children[worker].by = "emit"

\* C11 as stated: the callback of an afterEmit handled while Running with
\* autoRestart on is not invoked before the deferred step that records the
\* replacement as this.worker: the handler itself does not call it.
C11_RestartCallbackAfterAck ==
    (EmitStep /\ last.running /\ options.autoRestart) =>
        CbCount(step, last.n) = 0

\* C11 as amended: the callback of an afterEmit handled while Running with
\* autoRestart on is invoked once, in the handler itself, after the
\* replacement was forked and before the deferred step: this.worker is
\* still the old handle and the replacement's timer, which carries no
\* callback, is still pending.
C11_RestartCallbackInHandler ==
    (EmitStep /\ last.running /\ options.autoRestart) =>
        /\ CbCount(step, last.n) = 1
        /\ Count(step, "fork") = 1
        /\ Before(step, "fork", "cb")
        /\ ~Has(step, "setWorker")
        /\ WorkerPid = last.workerPid
        /\ worker # Len(children)
        /\ timers # <<>>
        /\ timers[Len(timers)] = [child |-> Len(children), cb |-> NoCb]

C11_Witness ==
    /\ EmitStep /\ last.running /\ options.autoRestart
    /\ emits[last.n].cbs = 1 /\ worker # Len(children)

\* C12 as stated: after an afterEmit handled while Running with autoRestart
\* off the controller holds no current process (NoProcess), so the next
\* afterEmit would be a fresh start.
C12_StopLeavesNoProcess ==
    (EmitStep /\ last.running /\ ~options.autoRestart) => ~Running

\* C12 as amended: after an afterEmit handled while Running with
\* autoRestart off the controller still holds the same connected handle
\* (it is Running with the same pid, nothing is forked, the entry path is
\* kept), so the next afterEmit signals that process again; it is a fresh
\* start only once the handle has disconnected.
C12_StopKeepsWorker ==
    (EmitStep /\ last.running /\ ~options.autoRestart) =>
        /\ Running
        /\ WorkerPid = last.workerPid
        /\ ~Has(step, "setWorker") /\ ~Has(step, "fork")
        /\ ~Has(step, "setEntrypoint")

C12_Witness ==
    /\ EmitStep /\ last.running /\ ~options.autoRestart
    /\ Running /\ Has(step, "kill")

\* an afterEmit that took the fresh-start path (startServer)
FreshStep == EmitStep /\ ~last.running
NameBuilt == \E i \in 1..Len(last.assets) : last.assets[i] = options.name

\* C13: on a fresh start with a defined output.path the path forked, and
\* stored as the entry path, is <output.path>/<name>: the configured name
\* when one is configured, built or not, and otherwise the first asset
\* name.
C13_Reference ==
    IF given.name # NoName
    THEN last.path \o "/" \o given.name
    ELSE last.path \o "/" \o Head(last.assets)

C13_EntryPath ==
    (FreshStep /\ last.path # NoPath) =>
        /\ Count(step, "fork") = 1
        /\ First(step, "fork").s = C13_Reference
        /\ entrypoint = C13_Reference

\* the configured name was not built and is forked all the same
C13_Witness ==
    /\ FreshStep /\ given.name = "missing.js"
    /\ Has(step, "fork") /\ First(step, "fork").s = "/dist/missing.js"

\* C14: on a fresh start an error line is logged exactly when a name is
\* configured and was not built, the multi-entry notice exactly when no
\* name is configured and more than one asset was built, and nothing else
\* is logged; choosing the name involves no process control: no
\* process.kill, and the fork comes after the logging.
C14_AdapterLogs ==
    FreshStep =>
        /\ Has(step, "error") <=> (options.name # NoName /\ ~NameBuilt)
        /\ Has(step, "log") <=>
              (options.name = NoName /\ Len(last.assets) > 1)
        /\ Has(step, "log") => First(step, "log").s = MoreThanOneEntry
        /\ Has(step, "error") => First(step, "error").s = EntryNotFound
        /\ Count(step, "log") + Count(step, "error") <= 1
        /\ ~Has(step, "kill")
        /\ Before(step, "log", "fork") /\ Before(step, "error", "fork")
        /\ Before(step, "log", "throw") /\ Before(step, "error", "throw")

\* two assets and no name: the notice is logged, then the first is forked
C14_Witness ==
    /\ FreshStep /\ options.name = NoName /\ Len(last.assets) = 2
    /\ Has(step, "log") /\ Has(step, "fork")

\* the text is "rs" with only whitespace around it
IsRsText(d) ==
    \E i \in 1..Len(d) :
        /\ i < Len(d) /\ d[i] = "r" /\ d[i + 1] = "s"
        /\ \A j \in 1..Len(d) : j \notin {i, i + 1} => d[j] \in Whitespace

C16_ListenerIffBothOptions ==
    /\ listeners = (IF given.restartable /\ given.keyboard THEN 1 ELSE 0)
    /\ ~(given.restartable /\ given.keyboard) =>
          /\ stdinCount = 0 /\ ~StdinStep
          /\ ForksBy("stdin") = {}
          /\ Has(step, "kill") => EmitStep

\* the one listener has handled "rs"
C16_Witness ==
    /\ given.restartable /\ given.keyboard /\ listeners = 1
    /\ StdinStep /\ RestartStep /\ ForksBy("stdin") # {}

\* C17: an "rs" handled before any fresh start has resolved an entry path
\* raises 'run-script-webpack-plugin requires an entrypoint.', forks and
\* kills nothing, and leaves no handle recorded and no timer pending.
C17_RestartWithoutEntrypoint ==
    (StdinStep /\ IsRsText(last.data) /\ ~last.hadEntry) =>
        /\ Raised /\ First(step, "throw").s = EntrypointError
        /\ ~Has(step, "fork") /\ ~Has(step, "kill")
        /\ ~Has(step, "setTimeout")
        /\ worker = NoWorker /\ children = <<>> /\ timers = <<>>
        /\ entrypoint = ""

\* "rs" typed after a build that raised, before any start
C17_Witness ==
    /\ StdinStep /\ IsRsText(last.data) /\ ~last.hadEntry
    /\ Raised /\ Len(emits) >= 1

\* env overlaid on the inherited environment: the overlay wins on conflict
Overlay(inherited, overlay) ==
    overlay \cup {p \in inherited : \A q \in overlay : q[1] # p[1]}
EnvNames(env) == {p[1] : p \in env}

\* C18 as stated: when env is configured, every child is forked with the
\* inherited environment overlaid with the configured mapping.
C18_EnvMergedWithInherited ==
    given.env.set =>
        \A c \in 1..Len(children) :
            /\ children[c].call.env.set
            /\ children[c].call.env.v = Overlay(InheritedEnv, given.env.v)

\* C18 as amended: when env is configured, every child is forked with
\* exactly the configured mapping as its env option: nothing is merged in,
\* so inherited variables that the mapping does not name are not passed.
C18_EnvPassedAsConfigured ==
    given.env.set =>
        \A c \in 1..Len(children) :
            /\ children[c].call.env = Given(given.env.v)
            /\ EnvNames(children[c].call.env.v) \cap EnvNames(InheritedEnv)
                  \subseteq EnvNames(given.env.v)

\* children forked by a build and by "rs" with env configured
C18_Witness ==
    /\ given.env.set /\ ForksBy("emit") # {} /\ ForksBy("stdin") # {}
    /\ \A c \in 1..Len(children) : "PATH" \notin EnvNames(children[c].call.env.v)

\* C19: every fork, from a fresh start, an automatic restart or a manual
\* restart, is called with the script arguments args (none when not
\* configured), execArgv nodeArgs (process.execArgv when not configured),
\* and the configured cwd and env unchanged.
C19_ForkGetsConfiguredValues ==
    \A c \in 1..Len(children) :
        /\ children[c].call.args =
              (IF given.args.set THEN given.args.v ELSE <<>>)
        /\ children[c].call.execArgv =
              (IF given.nodeArgs.set THEN given.nodeArgs.v ELSE ExecArgv)
        /\ children[c].call.cwd = given.cwd
        /\ children[c].call.env = given.env
        /\ children[c].call.stdio = "inherit"

\* a fresh start, an automatic restart and a manual restart have forked,
\* with args, cwd and env configured and nodeArgs left out
C19_Witness ==
    /\ given.args.set /\ ~given.nodeArgs.set /\ given.cwd # ""
    /\ given.env.set
    /\ Len(children) = 3 /\ ForksBy("stdin") # {}
    /\ Cardinality(ForksBy("emit")) = 2

RestartPending == \E i \in 1..Len(timers) : timers[i].cb = NoCb

\* C21 as stated: while the fork of a restart awaits its acknowledgment the
\* controller has no current process, so an event handled then sees none.
C21_NoCurrentWhileRestartPending == RestartPending => ~Running

\* C21 as amended: while the fork of a restart awaits its acknowledgment
\* this.worker still refers to the handle it referred to before the restart
\* (only the deferred step replaces it, so it is older than every pending
\* child); an afterEmit handled in that window with the old handle still
\* connected sees it as the current process and signals its pid again.
C21_OldHandleTrackedUntilAck ==
    /\ \A i \in 1..Len(timers) : worker < timers[i].child
    /\ (RestartStep /\ Has(step, "fork")) =>
          /\ ~Has(step, "setWorker")
          /\ WorkerPid = last.workerPid
          /\ last.running => Running
    /\ (EmitStep /\ last.running /\ Len(timers) >= 2) =>
          /\ Has(step, "kill")
          /\ First(step, "kill").n = WorkerPid

\* a second build handled while the fork of the first restart is pending:
\* the old handle was seen as current and signaled again
C21_Witness ==
    /\ EmitStep /\ last.running /\ RestartStep /\ Running
    /\ Len(timers) = 2 /\ timers[1].cb = NoCb /\ timers[2].cb = NoCb
    /\ Has(step, "kill")

\* C22: forks are made only while handling an afterEmit notification or an
\* "rs" line, at most one per event; the deferred step neither forks nor
\* signals; so there are never more children than notifications plus stdin
\* events handled.
C22_ForkOnlyOnEvents ==
    /\ Count(step, "fork") <= 1
    /\ Has(step, "fork") =>
          \/ EmitStep
          \/ StdinStep /\ trim(last.data) = <<"r", "s">>
    /\ AckStep => ~Has(step, "fork") /\ ~Has(step, "kill")
    /\ Len(children) <= Len(emits) + stdinCount
    /\ \A c \in 1..Len(children) :
          /\ children[c].by \in {"emit", "stdin"}
          /\ children[c].by = "emit" => children[c].n \in 1..Len(emits)
          /\ children[c].by = "stdin" => children[c].n \in 1..stdinCount
          /\ \A d \in 1..Len(children) :
                (children[d].by = children[c].by /\ children[d].n = children[c].n)
                    => d = c

\* every build and the "rs" line have forked, and a deferred step has run
\* after them
C22_Witness ==
    /\ AckStep /\ stdinCount >= 1
    /\ Len(children) = Len(emits) + stdinCount
    /\ Len(emits) >= 2

\* the step took the fresh-start path of afterEmit and got past the checks
FreshStarted == EmitStep /\ ~last.running /\ ~Raised

\* C23: this._entrypoint is written only by a fresh start (afterEmit with no
\* connected handle that has a pid); restarts, stops, "rs" and the deferred
\* step leave it unchanged, so a restart forks the path stored by the last
\* fresh start whatever the current notification carries.
C23_EntryWrittenOnlyByFreshStart ==
    /\ [](Has(step, "setEntrypoint") <=> FreshStarted)
    /\ []((Has(step, "fork") /\ ~FreshStarted) =>
              First(step, "fork").s = entrypoint)
    /\ [][entrypoint' # entrypoint =>
              /\ last'.kind = "emit" /\ ~last'.running
              /\ ~Has(step', "throw")]_vars

\* an automatic restart that forked the stored path although the current
\* notification would resolve to another one
C23_Witness ==
    /\ EmitStep /\ last.running /\ Has(step, "fork")
    /\ First(step, "fork").s = entrypoint
    /\ last.path = NoPath
    /\ entrypoint # EntryPath("/dist", ResolveName(last.assets))

\* C24: an afterEmit that raises the output.path error leaves this.worker,
\* this._entrypoint, the children and the pending timers as they were; it
\* neither forks nor signals nor schedules a deferred step.
C24_OutputPathErrorChangesNothing ==
    /\ []((EmitStep /\ Raised) =>
              /\ First(step, "throw").s = OutputPathError
              /\ ~Has(step, "fork") /\ ~Has(step, "kill")
              /\ ~Has(step, "setTimeout") /\ ~Has(step, "setEntrypoint")
              /\ ~Has(step, "setWorker") /\ ~Has(step, "cb"))
    /\ [][(last'.kind = "emit" /\ Has(step', "throw")) =>
              UNCHANGED <<worker, entrypoint, children, timers, options>>]_vars

\* the error was raised with a tracked (disconnected) worker and a stored
\* entry path, which are still there
C24_Witness ==
    /\ EmitStep /\ Raised /\ last.hadEntry
    /\ worker # NoWorker /\ entrypoint # ""

Pending == {timers[i].child : i \in 1..Len(timers)}

\* C25 as stated: every child that is not this.worker and is not the most
\* recent fork still awaiting its deferred step has had process.kill
\* called on its pid.
C25_SupersededChildrenSignaled ==
    \A c \in 1..Len(children) :
        (c # worker /\ ~(c = Len(children) /\ c \in Pending))
            => c \in signaled

\* C26: the deferred steps run in the order of their forks: the pending
\* children are exactly those forked after this.worker, oldest first, each
\* deferred step records the oldest of them, and once none is pending
\* this.worker is the child forked last.
C26_AcksInForkOrder ==
    /\ \A i, j \in 1..Len(timers) :
          i < j => timers[i].child < timers[j].child
    /\ Pending = (worker + 1)..Len(children)
    /\ AckStep => worker = First(step, "setWorker").n
    /\ (timers = <<>> /\ children # <<>>) => worker = Len(children)

\* of two forks that were pending together the older has been recorded
\* and the newer is still pending
C26_Witness ==
    /\ AckStep /\ Len(timers) = 1 /\ worker >= 2
    /\ timers[1].child = worker + 1

\* C27 as stated: process.kill is only called, by afterEmit or by "rs",
\* with the pid of a handle that was connected when the event was handled.
C27_KillOnlyConnected ==
    ((EmitStep \/ StdinStep) /\ Has(step, "kill")) => last.running

\* the afterEmit notification found no connected handle with a pid
NotRunningEmit == EmitStep /\ ~last.running /\ last.path # NoPath

\* C28: an afterEmit with a defined output.path handled with no handle, or
\* with one that is disconnected or has no pid, takes the fresh-start path
\* whatever autoRestart is: no signal, the entry path resolved anew, exactly
\* one fork whose deferred step is scheduled; every deferred step records
\* its child as this.worker, and every scheduled deferred step eventually
\* runs, so the forked child becomes the current handle.
C28_FreshStartWhenNotRunning ==
    /\ [](NotRunningEmit =>
              /\ ~Has(step, "kill") /\ ~Raised
              /\ entrypoint = EntryPath(last.path, ResolveName(last.assets))
              /\ Has(step, "setEntrypoint")
              /\ First(step, "setEntrypoint").s = entrypoint
              /\ Count(step, "fork") = 1
              /\ First(step, "fork") = EffFork(Len(children), entrypoint)
              /\ timers # <<>>
              /\ timers[Len(timers)] =
                    [child |-> Len(children), cb |-> last.n])
    /\ [][last'.kind = "ack" =>
              /\ timers # <<>>
              /\ worker' = Head(timers).child
              /\ timers' = Tail(timers)]_vars
    /\ []<>(timers = <<>>)

\* with autoRestart off, the child forked by a build that found a crashed
\* child has become the current handle
C28_Witness ==
    /\ AckStep /\ last.n # NoCb /\ ~options.autoRestart
    /\ worker >= 2 /\ ~children[worker - 1].connected
    /\ children[worker].by = "emit" /\ children[worker].n = last.n
    /\ worker - 1 \notin Pending

\* C29: this.options keeps the value the constructor gave it: no step
\* changes any option.
C29_OptionsNeverChange ==
    /\ [](options = Constructor(given))
    /\ [][options' = options /\ given' = given]_vars

\* builds, a manual restart, a signal and deferred steps have all happened
C29_Witness ==
    /\ AckStep /\ Len(emits) >= 2 /\ stdinCount >= 1
    /\ Len(children) >= 3
    /\ options = Constructor(given)

CleanupRan == cleanupLast.kind = "sigint" /\ applied /\ cleanupOption
PollStep == cleanupLast.kind = "poll"

\* C30 as stated: _cleanup run with a tracked worker sends one kill to the
\* worker pid and starts polling; a poll requests the exit exactly when the
\* worker pid no longer exists or the retry counter exceeds 5; no interval
\* polls more than 7 times; with no tracked worker _cleanup does nothing.
C30_CleanupKillsThenPolls ==
    /\ (CleanupRan /\ cleanupLast.worker # NoWorker) =>
          /\ Count(cleanupStep, "kill") = 1
          /\ First(cleanupStep, "kill").n = cleanupLast.worker
          /\ Before(cleanupStep, "kill", "setInterval")
          /\ ~Has(cleanupStep, "throw")
          /\ Has(cleanupStep, "setInterval") /\ intervals # <<>> /\ ~exited
    /\ (CleanupRan /\ cleanupLast.worker = NoWorker) => cleanupStep = <<>>
    /\ PollStep =>
          (exited <=> (~cleanupLast.existed \/ cleanupLast.retry > maxRetry))
    /\ \A i \in 1..Len(intervals) : intervals[i].polls <= maxRetry + 2

====
